---- MODULE Spec2Model ----
(***************************************************************************)
(* Model of Php::File (zend/file.cpp): a source file that is resolved at   *)
(* construction, lazily compiled into opcodes, executed, and executed      *)
(* "once" against the engine's table of included files.                    *)
(*                                                                         *)
(* The engine is single threaded.  A call of execute() or once() that      *)
(* reaches the execution backend stays on the call stack while the program *)
(* runs, and the running program may call back into any File instance, so  *)
(* such a call is modelled by a step that starts the execution and a step  *)
(* that ends it; everything else a method does is one atomic step.         *)
(***************************************************************************)
EXTENDS Integers, Sequences, FiniteSets, TLC

\* Bounds of the model
MaxCalls == 3       \* method calls made in one behaviour
MaxDepth == 2       \* executions that are in progress at the same time

\* The File instances and the canonical paths their names can resolve to
Files == {"f1", "f2"}
Paths == {"p1", "p2"}
NoPath == "nullpath"        \* _path == nullptr: the name did not resolve

\* What the constructor's zend_resolve_path() calls can leave in _path, up to
\* a renaming of the instances and of the paths: two instances of one path,
\* instances of two paths, a resolved and an unresolved instance, and two
\* unresolved instances
Resolutions ==
    {[f \in Files |-> "p1"],
     [f \in Files |-> IF f = "f1" THEN "p1" ELSE "p2"],
     [f \in Files |-> IF f = "f1" THEN "p1" ELSE NoPath],
     [f \in Files |-> NoPath]}

\* The _opcodes slot is empty, or holds a unit that is "valid" or "invalid"
NoOpcodes == "empty"

\* What a call returns: nullptr (the no-result value), a result, or a fault
\* that the execution backend signals and that propagates to the caller
NoResult == "nullptr"
Fault == "fault"
Results == {"R"}

\* The file system as seen by stat() and zend_stream_open()
FsStates == {"absent", "unreadable", "readable"}

VARIABLES
    php81,          \* the build: PHP_VERSION_ID >= 80100
    path,           \* File::_path of every instance
    opcodes,        \* File::_opcodes of every instance
    included,       \* EG(included_files)
    fs,             \* the file system state of every canonical path
    stack,          \* the executions in progress, innermost last
    last,           \* the call that returned last, and what it returned
    calls,          \* number of method calls begun
    opens,          \* zend_stream_open() calls, per instance
    compiles,       \* zend_compile_file() calls, per instance
    stats,          \* stat() calls, per instance
    execs,          \* execution backend invocations, per instance
    onceCalls,      \* once() calls begun, per canonical path
    onceExecs,      \* executions started by once(), per canonical path
    handlesInit,    \* file handles set up
    handlesDestroyed, \* file handles passed to zend_destroy_file_handle()
    onceFaulted     \* canonical paths whose once() passed a fault on

vars == <<php81, path, opcodes, included, fs, stack, last, calls, opens,
          compiles, stats, execs, onceCalls, onceExecs, handlesInit,
          handlesDestroyed, onceFaulted>>

compileVars == <<opcodes, opens, compiles, handlesInit, handlesDestroyed>>

----------------------------------------------------------------------------
\* Helpers

RECURSIVE SumOver(_, _)
SumOver(f, S) ==
    IF S = {} THEN 0
    ELSE LET x == CHOOSE y \in S : TRUE IN f[x] + SumOver(f, S \ {x})

\* The instances that resolved to canonical path p
FilesOf(p) == {f \in Files : path[f] = p}

\* Executions of the program of canonical path p, over all instances
ExecsOfPath(p) == SumOver(execs, FilesOf(p))

\* The record of a returned call: what it returned, which once() call for its
\* path it was, and what the execution backend produced for it, if it ran
NoBackend == "notrun"

Returned(op, f, r, n, b) ==
    [op |-> op, file |-> f, ret |-> r, nth |-> n, out |-> b]

Frame(op, f, n) == [op |-> op, file |-> f, nth |-> n]

----------------------------------------------------------------------------
\* The collaborators

\* stat(path) == 0
StatOk(p) == fs[p] # "absent"

\* zend_stream_open(...) != FAILURE
OpenOk(p) == fs[p] = "readable"

\* Opcodes::valid()
OpcodesValid(f) == opcodes[f] = "valid"

\* Mutant: the check of the table of included files always misses
NeverIncluded(p) == FALSE

\* zend_hash_exists(&EG(included_files), _path)
AlreadyIncluded(p) == p \in included

\* Mutant: once() overwrites the table of included files with its own path
AddIncludedReplacing(reg, p) == {p}

\* Mutant: once() does not add the path to the table of included files
AddIncludedSkipped(reg, p) == reg

\* zend_hash_add_empty_element(&EG(included_files), _path)
AddIncluded(reg, p) == reg \cup {p}

----------------------------------------------------------------------------
Init ==
    /\ php81 \in BOOLEAN
    /\ path \in Resolutions
    /\ opcodes = [f \in Files |-> NoOpcodes]
    /\ included = {}
    /\ fs = [p \in Paths |-> "readable"]
    /\ stack = <<>>
    /\ last = Returned("none", "f1", NoResult, 0, NoBackend)
    /\ calls = 0
    /\ opens = [f \in Files |-> 0]
    /\ compiles = [f \in Files |-> 0]
    /\ stats = [f \in Files |-> 0]
    /\ execs = [f \in Files |-> 0]
    /\ onceCalls = [p \in Paths |-> 0]
    /\ onceExecs = [p \in Paths |-> 0]
    /\ handlesInit = 0
    /\ handlesDestroyed = 0
    /\ onceFaulted = {}

----------------------------------------------------------------------------
\* File::compile()

\* line 59: never works if the path is invalid
PathInvalid(f) == path[f] = NoPath

\* Mutant: only a valid unit counts as already compiled
AlreadyCompiledValidOnly(f) == opcodes[f] = "valid"

\* line 62: is the file already compiled?
AlreadyCompiled(f) == opcodes[f] # NoOpcodes

\* Mutant: an open failure is memoized as an invalid unit
OpcodesOnOpenFailureMemoized(f) == "invalid"

\* lines 70 and 78: the early return on an open failure leaves _opcodes alone
OpcodesOnOpenFailure(f) == opcodes[f]

\* lines 65-78: the handle is set up by zend_stream_init_filename_ex() before
\* the open since PHP 8.1, and by a successful zend_stream_open() before
HandleSetUp(opened) == php81 \/ opened

\* lines 70 and 78: the early return on an open failure destroys no handle;
\* line 95: zend_destroy_file_handle() after the compilation
HandleDestroyed(opened) == opened

\* compile() as a step on (_opcodes, the collaborators' counters) that
\* returns r
Compile(f, r) ==
    IF PathInvalid(f) THEN
        /\ r = FALSE
        /\ UNCHANGED compileVars
    ELSE IF AlreadyCompiled(f) THEN
        /\ r = OpcodesValid(f)
        /\ UNCHANGED compileVars
    ELSE
        /\ opens' = [opens EXCEPT ![f] = @ + 1]
        /\ IF ~OpenOk(path[f]) THEN
               /\ r = FALSE
               /\ opcodes' = [opcodes EXCEPT ![f] = OpcodesOnOpenFailure(f)]
               /\ handlesInit' =
                      handlesInit + (IF HandleSetUp(FALSE) THEN 1 ELSE 0)
               /\ handlesDestroyed' =
                      handlesDestroyed + (IF HandleDestroyed(FALSE) THEN 1 ELSE 0)
               /\ UNCHANGED compiles
           ELSE
               \* line 92: zend_compile_file() yields a valid or an invalid
               \* program, and either is stored
               \E unit \in {"valid", "invalid"} :
                   /\ r = (unit = "valid")
                   /\ opcodes' = [opcodes EXCEPT ![f] = unit]
                   /\ compiles' = [compiles EXCEPT ![f] = @ + 1]
                   /\ handlesInit' =
                          handlesInit + (IF HandleSetUp(TRUE) THEN 1 ELSE 0)
                   /\ handlesDestroyed' =
                          handlesDestroyed + (IF HandleDestroyed(TRUE) THEN 1 ELSE 0)

BoolRet(b) == IF b THEN "true" ELSE "false"

\* File::valid()
Valid(f) ==
    /\ calls < MaxCalls
    /\ calls' = calls + 1
    /\ \E r \in BOOLEAN :
           /\ Compile(f, r)
           /\ last' = Returned("valid", f, BoolRet(r), 0, NoBackend)
    /\ UNCHANGED <<php81, path, included, fs, stack, stats, execs, onceCalls,
                   onceExecs, onceFaulted>>

----------------------------------------------------------------------------
\* File::exists()

\* Mutant: exists() calls stat() without the check of the path at line 108
ExistsStatsAlways(f) == ~(opcodes[f] = "valid")

\* lines 108-115: whether exists() gets as far as the stat() call
ExistsStats(f) == ~PathInvalid(f) /\ ~(AlreadyCompiled(f) /\ OpcodesValid(f))

\* Mutant: an unresolved path is reported as existing
ExistsResultUnresolvedTrue(f) ==
    IF path[f] = NoPath THEN TRUE
    ELSE IF opcodes[f] = "valid" THEN TRUE
    ELSE fs[path[f]] # "absent"

\* Mutant: exists() without the fast path of line 111
ExistsResultNoFastPath(f) ==
    IF path[f] = NoPath THEN FALSE ELSE fs[path[f]] # "absent"

\* lines 105-116: what exists() returns
ExistsResult(f) ==
    IF PathInvalid(f) THEN FALSE
    ELSE IF AlreadyCompiled(f) /\ OpcodesValid(f) THEN TRUE
    ELSE StatOk(path[f])

\* Mutant: exists() answers by compiling the file
ExistsViaCompile(f) ==
    /\ calls < MaxCalls
    /\ calls' = calls + 1
    /\ \E r \in BOOLEAN :
           /\ Compile(f, r)
           /\ last' = Returned("exists", f, BoolRet(r), 0, NoBackend)
    /\ UNCHANGED <<php81, path, included, fs, stack, stats, execs, onceCalls,
                   onceExecs, onceFaulted>>

Exists(f) ==
    /\ calls < MaxCalls
    /\ calls' = calls + 1
    /\ last' = Returned("exists", f, BoolRet(ExistsResult(f)), 0, NoBackend)
    /\ stats' = [stats EXCEPT ![f] = @ + (IF ExistsStats(f) THEN 1 ELSE 0)]
    /\ UNCHANGED <<php81, path, included, fs, stack, execs, onceCalls,
                   onceExecs, onceFaulted, compileVars>>

----------------------------------------------------------------------------
\* File::execute() and File::once()

Outcomes == {NoResult, Fault} \cup Results

\* Mutant: once() runs the program and returns nullptr instead of its result
PassOnDropped(op, out) == IF op = "once" /\ out # Fault THEN NoResult ELSE out

\* lines 135, 141 and 160: execute() returns what _opcodes->execute()
\* produced, and once() returns what execute() returned
PassOn(op, out) == out

\* A call returns what the execution backend produced: a fault that leaves
\* once() is remembered
Return(op, f, out, n) ==
    /\ last' = Returned(op, f, PassOn(op, out), n, out)
    /\ onceFaulted' = IF op = "once" /\ out = Fault
                       THEN onceFaulted \cup {path[f]}
                       ELSE onceFaulted

\* lines 138, 151 and 154: the call returns nullptr and ran nothing
ReturnNoResult(op, f, n) ==
    /\ last' = Returned(op, f, NoResult, n, NoBackend)
    /\ UNCHANGED onceFaulted

\* Opcodes::execute(): hands the unit to the execution backend.  A valid
\* program runs until EndExecution; what the backend makes of an invalid
\* one is not specified.
RunOpcodes(op, f, n, unit) ==
    /\ execs' = [execs EXCEPT ![f] = @ + 1]
    /\ IF unit = "valid" THEN
           /\ stack' = Append(stack, Frame(op, f, n))
           /\ UNCHANGED <<last, onceFaulted>>
       ELSE
           /\ \E out \in Outcomes : Return(op, f, out, n)
           /\ UNCHANGED stack

\* Mutant: execute() checks the validity of a memoized unit before it runs it
ExecuteBodyValidityChecked(op, f, n) ==
    IF AlreadyCompiled(f) THEN
        /\ UNCHANGED compileVars
        /\ IF OpcodesValid(f) THEN
               RunOpcodes(op, f, n, opcodes[f])
           ELSE
               /\ ReturnNoResult(op, f, n)
               /\ UNCHANGED <<stack, execs>>
    ELSE
        \E r \in BOOLEAN :
            /\ Compile(f, r)
            /\ IF ~r THEN
                   /\ ReturnNoResult(op, f, n)
                   /\ UNCHANGED <<stack, execs>>
               ELSE
                   RunOpcodes(op, f, n, opcodes'[f])

\* Mutant: execute() ignores what compile() returned
ExecuteBodyUnchecked(op, f, n) ==
    IF AlreadyCompiled(f) THEN
        /\ UNCHANGED compileVars
        /\ RunOpcodes(op, f, n, opcodes[f])
    ELSE
        \E r \in BOOLEAN :
            /\ Compile(f, r)
            /\ RunOpcodes(op, f, n, opcodes'[f])

\* lines 132-142
ExecuteBody(op, f, n) ==
    IF AlreadyCompiled(f) THEN
        /\ UNCHANGED compileVars
        /\ RunOpcodes(op, f, n, opcodes[f])
    ELSE
        \E r \in BOOLEAN :
            /\ Compile(f, r)
            /\ IF ~r THEN
                   /\ ReturnNoResult(op, f, n)
                   /\ UNCHANGED <<stack, execs>>
               ELSE
                   RunOpcodes(op, f, n, opcodes'[f])

Execute(f) ==
    /\ calls < MaxCalls
    /\ Len(stack) < MaxDepth
    /\ calls' = calls + 1
    /\ ExecuteBody("execute", f, 0)
    /\ UNCHANGED <<php81, path, included, fs, stats, onceCalls, onceExecs>>

\* Mutant: once() adds the path to the table only when the program was run
OnceMarkAfterCompile(f) ==
    /\ calls < MaxCalls
    /\ Len(stack) < MaxDepth
    /\ calls' = calls + 1
    /\ IF PathInvalid(f) THEN
           /\ ReturnNoResult("once", f, 0)
           /\ UNCHANGED <<included, stack, execs, onceCalls, onceExecs,
                          compileVars>>
       ELSE
           LET p == path[f]
               n == onceCalls[p] + 1
           IN  /\ onceCalls' = [onceCalls EXCEPT ![p] = n]
               /\ IF AlreadyIncluded(p) THEN
                      /\ ReturnNoResult("once", f, n)
                      /\ UNCHANGED <<included, stack, execs, onceExecs,
                                     compileVars>>
                  ELSE
                      /\ ExecuteBody("once", f, n)
                      /\ included' = IF execs'[f] # execs[f]
                                     THEN AddIncluded(included, p)
                                     ELSE included
                      /\ onceExecs' = [onceExecs EXCEPT
                                           ![p] = @ + (execs'[f] - execs[f])]
    /\ UNCHANGED <<php81, path, fs, stats>>

\* lines 148-161
Once(f) ==
    /\ calls < MaxCalls
    /\ Len(stack) < MaxDepth
    /\ calls' = calls + 1
    /\ IF PathInvalid(f) THEN
           /\ ReturnNoResult("once", f, 0)
           /\ UNCHANGED <<included, stack, execs, onceCalls, onceExecs,
                          compileVars>>
       ELSE
           LET p == path[f]
               n == onceCalls[p] + 1
           IN  /\ onceCalls' = [onceCalls EXCEPT ![p] = n]
               /\ IF AlreadyIncluded(p) THEN
                      /\ ReturnNoResult("once", f, n)
                      /\ UNCHANGED <<included, stack, execs, onceExecs,
                                     compileVars>>
                  ELSE
                      /\ included' = AddIncluded(included, p)
                      /\ ExecuteBody("once", f, n)
                      /\ onceExecs' = [onceExecs EXCEPT
                                           ![p] = @ + (execs'[f] - execs[f])]
    /\ UNCHANGED <<php81, path, fs, stats>>

\* The execution backend returns from the innermost running program, with a
\* result or with a fault, which execute() and once() pass on to their caller
EndExecution ==
    /\ stack # <<>>
    /\ LET top == stack[Len(stack)]
       IN  \E out \in Outcomes : Return(top.op, top.file, out, top.nth)
    /\ stack' = SubSeq(stack, 1, Len(stack) - 1)
    /\ UNCHANGED <<php81, path, included, fs, calls, stats, execs, onceCalls,
                   onceExecs, compileVars>>

----------------------------------------------------------------------------
\* The environment: a file is removed, made unreadable or made readable
FsChange(p, s) ==
    /\ fs[p] # s
    /\ \E f \in Files : path[f] = p
    /\ fs' = [fs EXCEPT ![p] = s]
    /\ last' = Returned("fs", "f1", NoResult, 0, NoBackend)
    /\ UNCHANGED <<php81, path, included, stack, calls, stats, execs,
                   onceCalls, onceExecs, onceFaulted, compileVars>>

Next ==
    \/ \E f \in Files : Exists(f)
    \/ \E f \in Files : Valid(f)
    \/ \E f \in Files : Execute(f)
    \/ \E f \in Files : Once(f)
    \/ EndExecution
    \/ \E p \in Paths, s \in FsStates : FsChange(p, s)

Spec == Init /\ [][Next]_vars

\* The behaviours in which once() is the only method that is called
NextOnce ==
    \/ \E f \in Files : Once(f)
    \/ EndExecution
    \/ \E p \in Paths, s \in FsStates : FsChange(p, s)

SpecOnce == Init /\ [][NextOnce]_vars

----------------------------------------------------------------------------
\* Steps and states the properties speak about

\* This step is a call of op on f that returns in the same step
Called(op, f) ==
    /\ calls' = calls + 1
    /\ stack' = stack
    /\ last'.op = op
    /\ last'.file = f

\* This step is a call of op on f that starts an execution
Started(op, f) ==
    /\ calls' = calls + 1
    /\ Len(stack') = Len(stack) + 1
    /\ stack'[Len(stack')].op = op
    /\ stack'[Len(stack')].file = f

\* This step is a call of once() on f
OnceCalled(f) == Called("once", f) \/ Started("once", f)

\* The call returned nullptr in this step and reached no backend
Skipped ==
    /\ last'.ret = NoResult
    /\ stack' = stack
    /\ execs' = execs

\* A once() on canonical path p is running
OnceRunning(p) ==
    \E i \in 1..Len(stack) : stack[i].op = "once" /\ path[stack[i].file] = p

----------------------------------------------------------------------------
\* C1: when only once() is called, on any instances, and the table of
\* included files starts without path p, the program of p is executed at
\* most once in total, and every once() call for p after the first one
\* returns nullptr.
C1_OnceAtMostOnce ==
    /\ \A p \in Paths : ExecsOfPath(p) <= 1
    /\ (last.op = "once" /\ last.nth > 1) => last.ret = NoResult

\* Two instances share a path, the first once() executed the program and
\* the second once() returned nullptr
C1_Witness ==
    /\ last.op = "once"
    /\ last.nth = 2
    /\ last.ret = NoResult
    /\ path["f1"] = path["f2"]
    /\ ExecsOfPath(path[last.file]) = 1
    /\ execs[last.file] = 0

\* C2 as stated: whatever once() and execute() calls are made, the program
\* of a canonical path is executed at most once.
C2_ExecutedAtMostOnce == \A p \in Paths : ExecsOfPath(p) <= 1

\* C2 as amended: whatever once() and execute() calls are made, at most one
\* execution of the program of a canonical path is started by once(); the
\* executions started by execute() are not limited.
C2_OnceExecutesAtMostOnce == \A p \in Paths : onceExecs[p] <= 1

\* once() ran the program of a path that execute() ran as well, and a second
\* once() for the path has returned
C2_Witness ==
    \E p \in Paths :
        /\ onceExecs[p] = 1
        /\ ExecsOfPath(p) >= 2
        /\ onceCalls[p] >= 2
        /\ stack = <<>>

\* C3: once() adds the path to the table of included files before it runs
\* the program: the path of a running once() is in the table, the path of a
\* once() that passed a fault on is in the table, and every later once() for
\* such a path returns nullptr without executing.
C3_MarkedBeforeRun ==
    /\ [](\A p \in Paths : OnceRunning(p) => p \in included)
    /\ [](onceFaulted \subseteq included)
    /\ [][\A f \in Files :
            (OnceCalled(f) /\ path[f] \in onceFaulted) => Skipped]_vars

\* A once() passed a fault on, and a later once() for the path returned
C3_Witness ==
    /\ last.op = "once"
    /\ last.nth >= 2
    /\ last.ret = NoResult
    /\ path[last.file] \in onceFaulted

\* C4: a once() for path p that is called while the execution started by a
\* once() for p is still running, on the same or on another instance,
\* returns nullptr and starts no second execution.
C4_NestedOnceSkipped ==
    [][\A f \in Files :
        (OnceCalled(f) /\ path[f] # NoPath /\ OnceRunning(path[f]))
            => (Called("once", f) /\ Skipped)]_vars

\* The outer once() is still running and a nested once() on another instance
\* of the same path has returned nullptr
C4_Witness ==
    /\ Len(stack) = 1
    /\ stack[1].op = "once"
    /\ stack[1].nth = 1
    /\ last.op = "once"
    /\ last.nth = 2
    /\ last.file # stack[1].file
    /\ path[last.file] = path[stack[1].file]
    /\ last.ret = NoResult
    /\ ExecsOfPath(path[last.file]) = 1

\* C5: on an instance whose name did not resolve, exists() and valid()
\* return false and execute() and once() return nullptr.
C5_UnresolvedFails ==
    path[last.file] = NoPath =>
        /\ last.op \in {"exists", "valid"} => last.ret = "false"
        /\ last.op \in {"execute", "once"} => last.ret = NoResult

\* Three calls were made on unresolved instances, the last one exists()
C5_Witness ==
    /\ \A f \in Files : path[f] = NoPath
    /\ calls >= 3
    /\ last.op = "exists"
    /\ last.ret = "false"

\* C6: once an instance holds a unit of validity V, every valid() call (which
\* is compile()) returns V, opens no file and invokes no compilation.
C6_CompileIdempotent ==
    [][\A f \in Files :
        (Called("valid", f) /\ opcodes[f] # NoOpcodes)
            => /\ last'.ret = BoolRet(opcodes[f] = "valid")
               /\ opens' = opens
               /\ compiles' = compiles
               /\ opcodes' = opcodes]_vars

\* The file opened, the compilation failed, and a second valid() returned
\* false again with the open count still at 1
C6_Witness ==
    /\ last.op = "valid"
    /\ last.ret = "false"
    /\ calls >= 2
    /\ opcodes[last.file] = "invalid"
    /\ opens[last.file] = 1
    /\ compiles[last.file] = 1
    /\ \A f \in Files :
        /\ path[f] # NoPath
        /\ stats[f] = 0
        /\ execs[f] = 0
        /\ f # last.file => opens[f] = 0
    /\ \A p \in Paths : onceCalls[p] = 0

\* C7 as stated: execute() returns nullptr on an instance whose name did not
\* resolve, whose file cannot be opened, or whose file compiled to an invalid
\* program, on the first call and on every later one.
C7_ExecuteFailuresAreNoResult ==
    (/\ last.op = "execute"
     /\ \/ path[last.file] = NoPath
        \/ opcodes[last.file] = "invalid"
        \/ opcodes[last.file] = NoOpcodes /\ fs[path[last.file]] # "readable")
        => last.ret = NoResult

\* C8 as stated: whenever no compile() is in progress, as many file handles
\* have been released as were set up.
C8_HandleScoped == handlesInit = handlesDestroyed

\* C9: a valid() (compile()) that cannot open the file returns false, invokes
\* no compilation and leaves the slot empty; a valid() on an empty slot opens
\* the file again, and if it opens, compiles and memoizes the unit.
C9_OpenFailureRetryable ==
    [][\A f \in Files :
        (Called("valid", f) /\ path[f] # NoPath /\ opcodes[f] = NoOpcodes)
            => /\ opens'[f] = opens[f] + 1
               /\ IF fs[path[f]] = "readable"
                  THEN /\ compiles'[f] = compiles[f] + 1
                       /\ opcodes'[f] # NoOpcodes
                       /\ last'.ret = BoolRet(opcodes'[f] = "valid")
                  ELSE /\ compiles' = compiles
                       /\ opcodes'[f] = NoOpcodes
                       /\ last'.ret = "false"]_vars

\* The first open failed, and the valid() after the file became readable
\* compiled and memoized the unit
C9_Witness ==
    /\ last.op = "valid"
    /\ opens[last.file] = 2
    /\ compiles[last.file] = 1
    /\ opcodes[last.file] = "valid"
    /\ last.ret = "true"
    /\ execs[last.file] = 0

\* C10: on an instance that holds a valid unit, exists() returns true
\* whatever the file system says and makes no stat() call.
C10_ExistsFastPath ==
    [][\A f \in Files :
        (Called("exists", f) /\ opcodes[f] = "valid")
            => (last'.ret = "true" /\ stats' = stats)]_vars

\* The file was removed after it compiled, and exists() returned true
\* without a stat() call
C10_Witness ==
    /\ last.op = "exists"
    /\ last.ret = "true"
    /\ opcodes[last.file] = "valid"
    /\ fs[path[last.file]] = "absent"
    /\ stats[last.file] = 0

----------------------------------------------------------------------------
\* This step is a call of execute() on f
ExecuteCalled(f) == Called("execute", f) \/ Started("execute", f)

\* C11: the first once() for a resolved path that is not in the table, with
\* a unit that is valid, starts exactly one execution and puts the path in
\* the table; a once() that ran the program returns what the execution
\* produced, with the path in the table and one execution started by once();
\* every once() after the first for the path returns nullptr and runs nothing.
C11_FirstOnceReturnsResult ==
    /\ [](last.op = "once" /\ last.out # NoBackend
            => /\ last.ret = last.out
               /\ last.nth = 1
               /\ path[last.file] \in included
               /\ onceExecs[path[last.file]] = 1)
    /\ [](last.op = "once" /\ last.nth > 1
            => last.ret = NoResult /\ last.out = NoBackend)
    /\ [][\A f \in Files :
            (/\ OnceCalled(f)
             /\ path[f] # NoPath
             /\ path[f] \notin included
             /\ opcodes'[f] = "valid")
                => /\ Started("once", f)
                   /\ execs'[f] = execs[f] + 1
                   /\ onceExecs'[path[f]] = 1
                   /\ path[f] \in included']_vars

\* Two once() calls were made, one after the other, on two instances of one
\* path: the first ran the valid program without a fault, the second
\* returned nullptr
C11_Witness ==
    /\ calls = 2
    /\ stack = <<>>
    /\ onceFaulted = {}
    /\ last.op = "once"
    /\ last.nth = 2
    /\ last.ret = NoResult
    /\ \E g \in Files :
        /\ g # last.file
        /\ path[g] = path[last.file]
        /\ opcodes[g] = "valid"
        /\ execs[g] = 1
        /\ onceExecs[path[g]] = 1
        /\ path[g] \in included

\* C12: the compilation backend is invoked at most once per instance, and a
\* slot that is not empty is never changed, whatever its validity.
C12_SlotPopulatedOnce ==
    /\ [](\A f \in Files : compiles[f] <= 1)
    /\ [][\A f \in Files :
            opcodes[f] # NoOpcodes
                => opcodes'[f] = opcodes[f] /\ compiles'[f] = compiles[f]]_vars

\* An instance holds an invalid unit from its one compilation, and was since
\* executed and asked whether it exists
C12_Witness ==
    \E f \in Files :
        /\ opcodes[f] = "invalid"
        /\ compiles[f] = 1
        /\ opens[f] = 1
        /\ execs[f] >= 1
        /\ stats[f] >= 1

\* C13: exists() leaves the slot, the table of included files, the open
\* count and the compilation count unchanged; on a resolved instance without
\* a valid unit it returns whether the path is present in the file system.
C13_ExistsNeverCompiles ==
    [][\A f \in Files :
        Called("exists", f)
            => /\ opcodes' = opcodes
               /\ included' = included
               /\ opens' = opens
               /\ compiles' = compiles
               /\ (path[f] # NoPath /\ opcodes[f] # "valid")
                    => last'.ret = BoolRet(fs[path[f]] # "absent")]_vars

\* exists() returned true for a file that is present and unreadable, on an
\* instance with an empty slot that opened and compiled nothing
C13_Witness ==
    /\ last.op = "exists"
    /\ last.ret = "true"
    /\ path[last.file] # NoPath
    /\ fs[path[last.file]] = "unreadable"
    /\ opcodes[last.file] = NoOpcodes
    /\ opens[last.file] = 0
    /\ stats[last.file] = 1

\* C14: with a unit memoized, valid or invalid, execute() hands it to
\* Opcodes::execute() in the same step, without a compile(), without an open
\* and whatever its validity.
C14_MemoizedExecutedDirectly ==
    [][\A f \in Files :
        (ExecuteCalled(f) /\ opcodes[f] # NoOpcodes)
            => /\ execs'[f] = execs[f] + 1
               /\ opens' = opens
               /\ compiles' = compiles
               /\ opcodes' = opcodes]_vars

\* execute() handed a memoized invalid unit to the execution backend, which
\* produced a result
C14_Witness ==
    /\ last.op = "execute"
    /\ last.out = "R"
    /\ opcodes[last.file] = "invalid"
    /\ execs[last.file] = 1
    /\ opens[last.file] = 1
    /\ compiles[last.file] = 1

\* C15: the table of included files only grows; a step that changes it is a
\* once() on a resolved instance whose path was not in it, and adds exactly
\* that path; exists(), valid() and execute() leave it unchanged.
C15_RegistryOnlyGrows ==
    [][/\ included \subseteq included'
       /\ included' # included
            => \E f \in Files :
                /\ OnceCalled(f)
                /\ path[f] # NoPath
                /\ path[f] \notin included
                /\ included' = included \cup {path[f]}
       /\ \A f \in Files :
            (Called("exists", f) \/ Called("valid", f) \/ ExecuteCalled(f))
                => included' = included]_vars

\* With another path in the table, execute() ran the program of a path and
\* returned, and that path is not in the table
C15_Witness ==
    /\ included # {}
    /\ last.op = "execute"
    /\ last.out # NoBackend
    /\ path[last.file] \notin included
    /\ execs[last.file] = 1

\* C16: a once() on a resolved path that is not in the table, whose open
\* fails or whose compilation yields an invalid program, returns nullptr
\* with the path in the table and nothing executed; and a once() for a path
\* in the table runs nothing, whatever the file system says by then.
C16_MarkedBeforeCompile ==
    [][\A f \in Files :
        /\ (/\ OnceCalled(f)
            /\ path[f] # NoPath
            /\ path[f] \notin included
            /\ opcodes[f] = NoOpcodes
            /\ (fs[path[f]] # "readable" \/ opcodes'[f] = "invalid"))
                => /\ Called("once", f)
                   /\ last'.ret = NoResult
                   /\ execs' = execs
                   /\ path[f] \in included'
        /\ (OnceCalled(f) /\ path[f] \in included)
                => (Called("once", f) /\ Skipped /\ compiles' = compiles)]_vars

\* The first once() for a path failed at the open; the file is readable
\* again and the second once() returned nullptr without an execution
C16_Witness ==
    /\ calls = 2
    /\ last.op = "once"
    /\ last.nth = 2
    /\ last.ret = NoResult
    /\ fs[path[last.file]] = "readable"
    /\ path[last.file] \in included
    /\ onceExecs[path[last.file]] = 0
    /\ \A f \in Files : compiles[f] = 0 /\ execs[f] = 0
    /\ \E f \in Files : opens[f] = 1

\* C17: an instance whose program was executed has had its compilation and
\* holds a unit; an execution on an instance with an empty slot happens only
\* with the compilation of a valid unit in the same call.
C17_ExecutedOnlyWhenMemoized ==
    /\ [](\A f \in Files :
            execs[f] > 0 => compiles[f] >= 1 /\ opcodes[f] # NoOpcodes)
    /\ [](\A i \in 1..Len(stack) : opcodes[stack[i].file] = "valid")
    /\ [][\A f \in Files :
            (opcodes[f] = NoOpcodes /\ execs'[f] # execs[f])
                => /\ opcodes'[f] = "valid"
                   /\ compiles'[f] = compiles[f] + 1
                   /\ opens'[f] = opens[f] + 1]_vars

\* A first call failed at the open and executed nothing; the second call,
\* an execute(), compiled a valid unit and ran it
C17_Witness ==
    /\ calls = 2
    /\ Len(stack) = 1
    /\ stack[1].op = "execute"
    /\ opens[stack[1].file] = 2
    /\ compiles[stack[1].file] = 1
    /\ execs[stack[1].file] = 1
    /\ opcodes[stack[1].file] = "valid"

\* C18: a once() on an unresolved instance, or for a path that is in the
\* table, returns nullptr in the same step and opens, compiles and executes
\* nothing, and leaves the table and the slots unchanged.
C18_SkippedOnceNoEffect ==
    [][\A f \in Files :
        (OnceCalled(f) /\ (path[f] = NoPath \/ path[f] \in included))
            => /\ Called("once", f)
               /\ last'.ret = NoResult
               /\ last'.out = NoBackend
               /\ stack' = stack
               /\ opens' = opens
               /\ compiles' = compiles
               /\ execs' = execs
               /\ included' = included
               /\ opcodes' = opcodes]_vars

\* A once() on a fresh instance of a readable path that is in the table
\* returned nullptr and left the slot empty
C18_Witness ==
    /\ last.op = "once"
    /\ last.nth >= 2
    /\ last.ret = NoResult
    /\ fs[path[last.file]] = "readable"
    /\ opcodes[last.file] = NoOpcodes
    /\ opens[last.file] = 0
    /\ ExecsOfPath(path[last.file]) = 1

\* This step is a call of some method on f
AnyCalled(f) ==
    \/ Called("exists", f)
    \/ Called("valid", f)
    \/ ExecuteCalled(f)
    \/ OnceCalled(f)

\* C19: an unresolved instance has made no stat(), no open, no compilation
\* and no execution, holds no unit and runs no program; the table holds
\* resolved paths only, and no call on an unresolved instance changes it.
C19_UnresolvedTouchesNothing ==
    /\ [](\A f \in Files :
            path[f] = NoPath
                => /\ stats[f] = 0
                   /\ opens[f] = 0
                   /\ compiles[f] = 0
                   /\ execs[f] = 0
                   /\ opcodes[f] = NoOpcodes
                   /\ \A i \in 1..Len(stack) : stack[i].file # f)
    /\ [](included \subseteq {path[f] : f \in Files} \ {NoPath})
    /\ [][\A f \in Files :
            (path[f] = NoPath /\ AnyCalled(f))
                => /\ included' = included
                   /\ stack' = stack
                   /\ handlesInit' = handlesInit]_vars

\* Three calls were made on unresolved instances, the last one once(), and
\* the table is empty
C19_Witness ==
    /\ \A f \in Files : path[f] = NoPath
    /\ calls >= 3
    /\ last.op = "once"
    /\ last.ret = NoResult
    /\ included = {}

====
